---- MODULE Spec2Model ----
(***************************************************************************)
(* Adoption-application lifecycle of the pet adoption backend.            *)
(*                                                                         *)
(* The Adoption document (models/Adoption.js: schema, pre('save') hook and *)
(* instance methods) and the routes that read and write it                 *)
(* (routes/adoptions.js, routes/pets.js) are modelled as written.  A       *)
(* document holds the fields the code assigns; of Mongoose only the        *)
(* behaviour the code relies on is modelled: schema defaults, the          *)
(* pre('save') hook and isModified('status').                              *)
(*                                                                         *)
(* The Activity document (models/Activity.js: capacity counters,           *)
(* participants, pre('save') hook, addParticipant / removeParticipant) and *)
(* the register routes (routes/activities.js), which keep their own        *)
(* registrations list, are modelled the same way; of the Activity schema   *)
(* the min validators of the counters are modelled, since save() runs them.*)
(*                                                                         *)
(* The accounts (models/User.js: isActive, role), protect and              *)
(* sensitiveOperationLimit (middleware/auth.js) and the routes that        *)
(* deactivate and activate an account (routes/auth.js, routes/users.js)    *)
(* form the third part.                                                    *)
(***************************************************************************)
EXTENDS Integers, Sequences, FiniteSets, TLC

----------------------------------------------------------------------------
(* Bounds of the model *)

\* longest timeline a document may grow to
MaxTimeline == 3
\* largest absolute value fees.paid may reach
MaxPaid == 2
\* most entries of fees.additional
MaxAdditional == 1
\* most entries of visits
MaxVisits == 1
\* most adoption documents in the store (submission specification)
MaxApps == 2
\* most entries of internalNotes
MaxNotes == 1
\* largest capacity.max of the activity
MaxCapacity == 2
\* latest value of the clock that stamps registeredAt: one tick per stamp
MaxClock == 4
\* most requests that hold a loaded copy of the activity at once
MaxRequests == 2
\* largest maxAttempts of a limiter
MaxLimit == 2
\* largest windowMs of a limiter, in ticks of the clock
MaxWindow == 2
\* most requests a limiter under observation passes on
MaxPassed == 4
\* most requests between protect's next() and the end of their handler
MaxPending == 1

----------------------------------------------------------------------------
(* Input sets *)

\* req.user.id of applicants
Users == {"u1", "u2"}

\* the applicant of the one application whose life Spec follows
Applicants == {"u1"}

\* adoption.fee of the pets in the store
PetFees == {1}

\* pets in the store; "p0" is an id that resolves to no pet
Pets == {"p1"}
PetIds == Pets \cup {"p0"}

\* roles an actor may hold: the userSchema.role enum and 'shelter_admin', the
\* value the routes name and PUT /api/users/:id/role assigns
Roles == {"user", "shelter", "shelter_admin", "admin"}

\* adoptionSchema.status enum
StatusEnum ==
    {"submitted", "under-review", "approved", "rejected", "on-hold",
     "meet-scheduled", "meet-completed", "home-visit-scheduled",
     "home-visit-completed", "adoption-approved", "adoption-completed",
     "adoption-returned", "withdrawn"}

\* body('status').isIn([...]) of PUT /api/adoptions/:id/status
RouteStatuses == {"pending", "approved", "rejected", "completed", "cancelled"}

\* statuses passed to updateStatus
UpdateInputs == {"under-review", "adoption-approved", "adoption-completed"}

\* statuses sent to the status route
RouteInputs == {"approved", "completed"}

\* statuses passed to updateStatus and sent to the status route in the
\* specification of withdrawal and rejection
CloseInputs == {"rejected", "withdrawn", "under-review"}
CloseRouteInputs == {"approved", "rejected"}

\* fees.adoption of a stored document (schema: a required Number)
FeeValues == {0, 1}

\* amounts passed to processPayment
Amounts == {-1, 0, 1}

\* amounts of an additional fee
AdditionalAmounts == {1}

\* visit types and outcomes passed to scheduleVisit / completeVisit
VisitTypes == {"meet-and-greet", "home-visit"}

\* the visitData passed to scheduleVisit: a type and the status it carries
VisitData == [type : VisitTypes, status : {"scheduled", "completed"}]
Outcomes == {"approved", "rejected"}

\* the adoptionDetails fields a request body may carry, and their values
DetailKeys == {"message", "livingSpace"}
DetailValues == {"a"}

\* req.body.adoptionDetails: any of the fields, each with a value
DetailBodies == UNION {[K -> DetailValues] : K \in SUBSET DetailKeys}

\* participants.status enum of activitySchema
ParticipantStatuses == {"registered", "attended", "no-show", "cancelled", "waitlisted"}

\* status arguments passed to addParticipant
StatusArgs == {"registered", "waitlisted", "cancelled"}

----------------------------------------------------------------------------
VARIABLES
    adoptions,   \* the Adoption collection: a sequence of documents
    pets,        \* the Pet collection: pet id -> [status, fee]
    inflight,    \* submit requests that passed the existence check, not yet created
    resp,        \* the response of the last request / result of the last call
    activity,    \* the Activity document in the store
    requests,    \* requests that hold a copy of the activity they loaded
    now,         \* the clock Date.now reads
    accounts,    \* the User collection: user id -> [isActive, role]
    pending,     \* requests that protect passed on, their handler not yet run
    limiters,    \* the attempts Map of each sensitiveOperationLimit instance
    passed       \* history of LimitedRequest: the requests passed to next, [route, key, at]

vars == <<adoptions, pets, inflight, resp, activity, requests, now,
          accounts, pending, limiters, passed>>

\* the variables of the adoption side and of the activity side
adoptionVars == <<adoptions, pets, inflight>>
activityVars == <<activity, requests, now>>
authVars == <<accounts, pending, limiters, passed>>

----------------------------------------------------------------------------
(* Helpers *)

RECURSIVE SumSeq(_)
\* fees.additional.reduce((sum, fee) => sum + fee.amount, 0)
SumSeq(s) == IF s = <<>> THEN 0 ELSE Head(s) + SumSeq(Tail(s))

\* the response record every action leaves
Resp(op, code, id, arg) == [op |-> op, code |-> code]

----------------------------------------------------------------------------
(* models/Adoption.js *)

\* isActive virtual
isActive(doc) ==
    doc.status \in {"submitted", "under-review", "approved", "meet-scheduled",
                    "meet-completed", "home-visit-scheduled",
                    "home-visit-completed", "adoption-approved"}

\* calcTotal with the additional fees left out of the sum
calcTotalAdoptionOnly(fees) == fees.adoption

\* pre('save'): fees.total
calcTotal(fees) == fees.adoption + SumSeq(fees.additional)

\* pre('save'): fees.paymentStatus (there is no else branch)
hookPaymentStatus(fees, total) ==
    IF fees.paid >= total THEN "paid"
    ELSE IF fees.paid > 0 THEN "partial"
    ELSE fees.paymentStatus

\* pre('save') that keeps only the entry of the latest status change
hookTimelineLatestOnly(doc, statusModified) ==
    IF statusModified THEN <<doc.status>> ELSE doc.timeline

\* pre('save'): the timeline entry pushed when isModified('status')
hookTimeline(doc, statusModified) ==
    IF statusModified THEN Append(doc.timeline, doc.status) ELSE doc.timeline

\* pre('save') hook, applied to the in-memory document before it is stored
preSave(doc, statusModified) ==
    LET total == calcTotal(doc.fees) IN
    [doc EXCEPT
        !.fees = [doc.fees EXCEPT !.total = total,
                                  !.paymentStatus = hookPaymentStatus(doc.fees, total)],
        !.timeline = hookTimeline(doc, statusModified)]

\* doc.save() of a document loaded as `stored` and changed in memory to `doc`:
\* isModified('status') compares the assigned value with the loaded one
save(stored, doc) == preSave(doc, doc.status # stored.status)

\* Adoption.create(payload): schema defaults (status 'submitted', paid 0,
\* paymentStatus 'pending', empty arrays), then save.  A defaulted path is not
\* modified, so the hook pushes no timeline entry.
create(pet, adopter, fee) ==
    preSave([pet |-> pet, adopter |-> adopter, status |-> "submitted",
             timeline |-> <<>>, visits |-> <<>>,
             adoptionDetails |-> [k \in DetailKeys |-> "none"],
             internalNotes |-> <<>>,
             fees |-> [adoption |-> fee, additional |-> <<>>, total |-> 0,
                       paid |-> 0, paymentStatus |-> "pending"]],
            FALSE)

\* methods.updateStatus
updateStatus(doc, newStatus) ==
    save(doc, [doc EXCEPT !.status = newStatus,
                          !.timeline = Append(doc.timeline, newStatus)])

\* processPayment without the test of the status before the auto-advance
processPaymentAnyStatus(doc, amount) ==
    LET paid == doc.fees.paid + amount
        full == paid >= doc.fees.total
    IN save(doc,
            [doc EXCEPT
                !.fees = [doc.fees EXCEPT
                            !.paid = paid,
                            !.paymentStatus = IF full THEN "paid" ELSE "partial"],
                !.status = IF full THEN "adoption-completed" ELSE doc.status])

\* methods.processPayment
processPayment(doc, amount) ==
    LET paid == doc.fees.paid + amount
        full == paid >= doc.fees.total
    IN save(doc,
            [doc EXCEPT
                !.fees = [doc.fees EXCEPT
                            !.paid = paid,
                            !.paymentStatus = IF full THEN "paid" ELSE "partial"],
                !.status = IF full /\ doc.status = "adoption-approved"
                           THEN "adoption-completed" ELSE doc.status])

\* scheduleVisit that pushes visitData with the status it carries
scheduleVisitAsGiven(doc, visitData) ==
    save(doc, [doc EXCEPT !.visits = Append(doc.visits,
                  [type |-> visitData.type, status |-> visitData.status,
                   outcome |-> "none"])])

\* methods.scheduleVisit: {...visitData, status: 'scheduled'} is pushed, so
\* the visit has status 'scheduled' whatever visitData carried
scheduleVisit(doc, visitData) ==
    save(doc, [doc EXCEPT !.visits = Append(doc.visits,
                  [type |-> visitData.type, status |-> "scheduled",
                   outcome |-> "none"])])

\* methods.completeVisit, for a visit the document holds
completeVisit(doc, v, outcome) ==
    LET visit == doc.visits[v]
        status == IF visit.type = "meet-and-greet" /\ outcome = "approved"
                      THEN "meet-completed"
                  ELSE IF visit.type = "home-visit" /\ outcome = "approved"
                      THEN "home-visit-completed"
                  ELSE doc.status
    IN save(doc,
            [doc EXCEPT
                !.visits[v] = [visit EXCEPT !.status = "completed",
                                            !.outcome = outcome],
                !.status = status])

\* methods.addNote
addNote(doc, content) ==
    save(doc, [doc EXCEPT !.internalNotes = Append(@, content)])

\* a fee pushed onto fees.additional, then save()
addFee(doc, amount) ==
    save(doc, [doc EXCEPT !.fees.additional = Append(doc.fees.additional, amount)])

----------------------------------------------------------------------------
(* middleware/auth.js *)

\* authorize(...roles): TRUE when the request is passed on to the handler
authorize(roles, role) == role \in roles

----------------------------------------------------------------------------
(* routes/adoptions.js, routes/pets.js *)

\* roles the status route names in authorize(...)
StatusRouteRoles == {"shelter_admin", "admin"}

\* Adoption.findOne({pet, adopter, status: {$in: ['pending', 'approved']}})
existingRequest(docs, p, u) ==
    \E i \in DOMAIN docs :
        /\ docs[i].pet = p
        /\ docs[i].adopter = u
        /\ docs[i].status \in {"pending", "approved"}

\* the pet write of case 'completed'
adoptPet(pet) == [pet EXCEPT !.status = "adopted"]

\* the in-memory change of PUT /api/adoptions/:id/status
setStatus(doc, status) == [doc EXCEPT !.status = status]

\* {...adoption.adoptionDetails.toObject(), ...req.body.adoptionDetails}
mergeDetails(details, body) ==
    [k \in DOMAIN details \cup DOMAIN body |->
        IF k \in DOMAIN body THEN body[k] ELSE details[k]]

\* PUT /api/adoptions/:id: the outcome for the document and the actor
updateCode(doc, user) ==
    IF doc.adopter # user THEN "403"
    ELSE IF doc.status # "pending" THEN "400"
    ELSE "200"

\* the roles DELETE /api/adoptions/:id takes for an admin
CancelAdminRoles == {"admin", "shelter_admin"}

\* statuses DELETE /api/adoptions/:id cancels from
Cancellable == {"pending", "approved"}

\* DELETE /api/adoptions/:id: the outcome for the document, the actor and
\* the actor's role
cancelCode(doc, user, role) ==
    IF ~(doc.adopter = user) /\ ~(role \in CancelAdminRoles) THEN "403"
    ELSE IF doc.status \notin Cancellable THEN "400"
    ELSE "200"

----------------------------------------------------------------------------
(* models/Activity.js *)

\* values of registration.deadline: absent, the day before date.start that
\* the save hook computes, a date the organizer gave
Deadlines == {"none", "start-1d", "given"}

\* a new Activity document as Activity.create stores it: capacity.current and
\* capacity.waitlist default to 0, participants is empty, registration.required
\* defaults to true and the save hook has set registration.deadline;
\* registrations is the list the register routes keep
newActivity(max) ==
    [capacity |-> [max |-> max, current |-> 0, waitlist |-> 0],
     participants |-> <<>>,
     registrations |-> <<>>,
     registration |-> [required |-> TRUE, deadline |-> "start-1d"]]

\* the min validators of capacity.current / capacity.waitlist and the capacity
\* check of activitySchema.pre('save'): TRUE when save() stores the document
validActivity(doc) ==
    /\ doc.capacity.current >= 0
    /\ doc.capacity.waitlist >= 0
    /\ ~(doc.capacity.current > doc.capacity.max)

\* the last step of activitySchema.pre('save'): a required registration with
\* no deadline gets the day before date.start
hookDeadline(doc) ==
    IF doc.registration.required /\ doc.registration.deadline = "none"
       THEN [doc EXCEPT !.registration.deadline = "start-1d"]
    ELSE doc

\* this.save(): the stored document afterwards
saveActivity(stored, doc) == IF validActivity(doc) THEN hookDeadline(doc) ELSE stored

\* participants.find(p => p.user.equals(userId)): index of the first match, 0 when none
findByUser(participants, userId) ==
    IF \E i \in DOMAIN participants : participants[i].user = userId
       THEN CHOOSE i \in DOMAIN participants :
               /\ participants[i].user = userId
               /\ \A j \in 1..(i - 1) : participants[j].user # userId
    ELSE 0

\* participants.find(p => p.status === 'waitlisted'): index of the first match, 0 when none
findWaitlisted(participants) ==
    IF \E i \in DOMAIN participants : participants[i].status = "waitlisted"
       THEN CHOOSE i \in DOMAIN participants :
               /\ participants[i].status = "waitlisted"
               /\ \A j \in 1..(i - 1) : participants[j].status # "waitlisted"
    ELSE 0

\* participants.pull({user: userId})
pull(participants, userId) == SelectSeq(participants, LAMBDA p : p.user # userId)

\* participants.filter(p => p.status === status).length of getParticipantStats
countStatus(participants, status) ==
    Cardinality({i \in DOMAIN participants : participants[i].status = status})

\* addParticipant with no capacity test and no save(): every call counts as registered
addParticipantUnchecked(doc, userId, status, at) ==
    [doc EXCEPT
        !.capacity.current = @ + 1,
        !.participants = Append(@, [user |-> userId, status |-> "registered",
                                    registeredAt |-> at])]

\* the status addParticipant stores for the status it was called with
storedStatus(doc, status) ==
    IF doc.capacity.current >= doc.capacity.max /\ status = "registered"
       THEN "waitlisted"
    ELSE status

\* addParticipant up to save(): the counters and the pushed entry; at is the
\* Date.now default of registeredAt
pushParticipant(doc, userId, status, at) ==
    LET counted ==
            IF doc.capacity.current >= doc.capacity.max /\ status = "registered"
               THEN [doc EXCEPT !.capacity.waitlist = @ + 1]
            ELSE IF status = "registered"
               THEN [doc EXCEPT !.capacity.current = @ + 1]
            ELSE doc
    IN [counted EXCEPT
           !.participants = Append(@, [user |-> userId,
                                       status |-> storedStatus(doc, status),
                                       registeredAt |-> at])]

\* activitySchema.methods.addParticipant
addParticipant(doc, userId, status, at) ==
    saveActivity(doc, pushParticipant(doc, userId, status, at))

\* activitySchema.methods.removeParticipant; a user with no entry leaves the
\* document as it is (return false)
removeParticipant(doc, userId) ==
    LET idx == findByUser(doc.participants, userId) IN
    IF idx = 0 THEN doc
    ELSE LET w == findWaitlisted(doc.participants)
             counted ==
                 IF doc.participants[idx].status = "registered"
                    THEN IF w # 0
                            THEN [doc EXCEPT
                                     !.participants[w].status = "registered",
                                     !.capacity.current = (@ - 1) + 1,
                                     !.capacity.waitlist = @ - 1]
                         ELSE [doc EXCEPT !.capacity.current = @ - 1]
                 ELSE IF doc.participants[idx].status = "waitlisted"
                    THEN [doc EXCEPT !.capacity.waitlist = @ - 1]
                 ELSE doc
         IN saveActivity(doc, [counted EXCEPT !.participants = pull(@, userId)])

\* the write save() sends for a copy that was loaded as loaded and changed to
\* local by addParticipant: $set of the counters that changed, $push of the
\* new entry, applied to the document the store holds at that moment
saveDelta(stored, loaded, local) ==
    IF ~validActivity(local) THEN stored
    ELSE [stored EXCEPT
             !.capacity.current =
                 IF local.capacity.current # loaded.capacity.current
                    THEN local.capacity.current ELSE @,
             !.capacity.waitlist =
                 IF local.capacity.waitlist # loaded.capacity.waitlist
                    THEN local.capacity.waitlist ELSE @,
             !.registration.deadline =
                 IF hookDeadline(local).registration.deadline # loaded.registration.deadline
                    THEN hookDeadline(local).registration.deadline ELSE @,
             !.participants = Append(@, local.participants[Len(local.participants)])]

----------------------------------------------------------------------------
(* routes/activities.js *)

\* the number POST /:id/register compares registrations.length with: the
\* route reads activity.capacity as the limit of the activity
routeCapacity(doc) == doc.capacity.max

\* activity.registrations.find(reg => reg.user.toString() === req.user.id)
existingRegistration(doc, userId) ==
    \E i \in DOMAIN doc.registrations : doc.registrations[i].user = userId

\* activity.registrations.findIndex(...): index of the first match, 0 for -1
registrationIndex(doc, userId) ==
    IF existingRegistration(doc, userId)
       THEN CHOOSE i \in DOMAIN doc.registrations :
               /\ doc.registrations[i].user = userId
               /\ \A j \in 1..(i - 1) : doc.registrations[j].user # userId
    ELSE 0

\* activity.registrations.push({user, registeredAt, notes, emergencyContact})
pushRegistration(doc, userId, at) ==
    [doc EXCEPT !.registrations = Append(@, [user |-> userId, registeredAt |-> at])]

\* activity.registrations.splice(registrationIndex, 1)
spliceRegistration(doc, idx) ==
    [doc EXCEPT !.registrations =
        SubSeq(@, 1, idx - 1) \o SubSeq(@, idx + 1, Len(@))]

----------------------------------------------------------------------------
(* State machine *)

\* the store before any application is submitted
\* new Map()
EmptyMap == [k \in {} |-> <<>>]

\* the routes behind a sensitiveOperationLimit instance
LimitRoutes == {"login", "deleteMe"}

\* a limiter as sensitiveOperationLimit(maxAttempts, windowMs) returns it:
\* const attempts = new Map()
newLimiter(maxAttempts, windowMs) ==
    [maxAttempts |-> maxAttempts, windowMs |-> windowMs, attempts |-> EmptyMap]

\* a User document: isActive defaults to true; email: whether the account
\* still has the address its owner logs in with
newUser(role) == [isActive |-> TRUE, role |-> role, email |-> "own"]

\* the specifications of the other sides: active accounts, no request under
\* way, limiters of one attempt per window that no action uses
InitAuth ==
    /\ accounts = [u \in Users |-> newUser("user")]
    /\ pending = {}
    /\ limiters = [r \in LimitRoutes |-> newLimiter(1, 1)]
    /\ passed = <<>>

InitAdoptions ==
    /\ adoptions = <<>>
    /\ pets \in [Pets -> [status : {"available"}, fee : PetFees]]
    /\ inflight = <<>>
    /\ resp = Resp("none", "none", 0, "none")

\* the adoption specifications: one activity of the least capacity the schema
\* allows, which none of their actions touches
Init ==
    /\ InitAdoptions
    /\ InitAuth
    /\ activity = newActivity(1)
    /\ requests = <<>>
    /\ now = 0

\* the activity specifications: a new activity of any capacity
InitActivity ==
    /\ InitAdoptions
    /\ InitAuth
    /\ activity \in {newActivity(max) : max \in 1..MaxCapacity}
    /\ requests = <<>>
    /\ now = 0

\* document ids a request may name: the stored ones and 0, which resolves to none
Ids == DOMAIN adoptions \cup {0}

\* the store after document i is written as doc
Stored(i, doc) == [adoptions EXCEPT ![i] = doc]

\* a submit route that does not test pet.adoption.status
SubmitCheckAnyPetStatus(route, u, p) ==
    /\ Len(adoptions) + Len(inflight) < MaxApps
    /\ IF p \notin Pets
          THEN /\ resp' = Resp(route, "404", 0, p)
               /\ UNCHANGED inflight
       ELSE IF existingRequest(adoptions, p, u)
          THEN /\ resp' = Resp(route, "400-duplicate", 0, p)
               /\ UNCHANGED inflight
       ELSE /\ inflight' = Append(inflight, [route |-> route, pet |-> p, adopter |-> u])
            /\ resp' = Resp(route, "checked", 0, p)
    /\ UNCHANGED <<adoptions, pets>>
    /\ UNCHANGED <<activityVars, authVars>>

\* a submit route up to the existence check (the awaits before create);
\* route names the route, which answers under that name
SubmitCheck(route, u, p) ==
    /\ Len(adoptions) + Len(inflight) < MaxApps
    /\ IF p \notin Pets
          THEN /\ resp' = Resp(route, "404", 0, p)
               /\ UNCHANGED inflight
       ELSE IF pets[p].status # "available"
          THEN /\ resp' = Resp(route, "400-unavailable", 0, p)
               /\ UNCHANGED inflight
       ELSE IF existingRequest(adoptions, p, u)
          THEN /\ resp' = Resp(route, "400-duplicate", 0, p)
               /\ UNCHANGED inflight
       ELSE /\ inflight' = Append(inflight, [route |-> route, pet |-> p, adopter |-> u])
            /\ resp' = Resp(route, "checked", 0, p)
    /\ UNCHANGED <<adoptions, pets>>
    /\ UNCHANGED <<activityVars, authVars>>

\* the Adoption.create of a submit route after its check.  The payload names
\* no fee: fees.adoption is whatever Number the stored document holds.
SubmitCreate(route, k, fee) ==
    /\ k \in DOMAIN inflight
    /\ inflight[k].route = route
    /\ adoptions' = Append(adoptions, create(inflight[k].pet, inflight[k].adopter, fee))
    /\ inflight' = SubSeq(inflight, 1, k - 1) \o SubSeq(inflight, k + 1, Len(inflight))
    /\ resp' = Resp(route, "201", Len(adoptions) + 1, inflight[k].pet)
    /\ UNCHANGED pets
    /\ UNCHANGED <<activityVars, authVars>>

\* POST /api/adoptions
PostAdoptionCheck(u, p) == SubmitCheck("postAdoption", u, p)
PostAdoptionCreate(k, fee) == SubmitCreate("postAdoption", k, fee)

\* POST /api/pets/:id/adoption-request
AdoptionRequestCheck(u, p) == SubmitCheck("adoptionRequest", u, p)
AdoptionRequestCreate(k, fee) == SubmitCreate("adoptionRequest", k, fee)

\* PUT /api/adoptions/:id/status.  petSaves / docSaves: whether the store
\* accepts the write of adoption.pet.save() / adoption.save().
PutStatus(i, role, status, petSaves, docSaves) ==
    /\ IF ~authorize(StatusRouteRoles, role)
          THEN /\ resp' = Resp("putStatus", "403", i, status)
               /\ UNCHANGED <<adoptions, pets, inflight>>
       ELSE IF i \notin DOMAIN adoptions
          THEN /\ resp' = Resp("putStatus", "404", i, status)
               /\ UNCHANGED <<adoptions, pets, inflight>>
       ELSE
          LET doc == adoptions[i]
              changed == setStatus(doc, status)
          IN /\ Len(doc.timeline) + 1 <= MaxTimeline
             /\ IF status = "completed" /\ ~petSaves
                   THEN /\ resp' = Resp("putStatus", "500", i, status)
                        /\ UNCHANGED <<adoptions, pets>>
                ELSE /\ pets' = IF status = "completed"
                                   THEN [pets EXCEPT ![doc.pet] = adoptPet(pets[doc.pet])]
                                   ELSE pets
                     /\ IF docSaves
                           THEN /\ adoptions' = Stored(i, save(doc, changed))
                                /\ resp' = Resp("putStatus", "200", i, status)
                        ELSE /\ resp' = Resp("putStatus", "500", i, status)
                             /\ UNCHANGED adoptions
             /\ UNCHANGED inflight
    /\ UNCHANGED <<activityVars, authVars>>

\* body('status').isIn([...]) of PUT /api/pets/:id/status
PetRouteStatuses == {"available", "pending", "adopted", "not_available"}

\* petSchema.adoption.status enum
PetStatusEnum == {"available", "pending", "adopted", "not-available", "hold"}

\* PUT /api/pets/:id/status; pet.save() validates the status against the enum
PutPetStatus(p, role, status) ==
    /\ IF ~authorize(StatusRouteRoles, role)
          THEN /\ resp' = Resp("putPetStatus", "403", p, status)
               /\ UNCHANGED pets
       ELSE IF p \notin Pets
          THEN /\ resp' = Resp("putPetStatus", "404", p, status)
               /\ UNCHANGED pets
       ELSE IF status \notin PetStatusEnum
          THEN /\ resp' = Resp("putPetStatus", "500", p, status)
               /\ UNCHANGED pets
       ELSE /\ pets' = [pets EXCEPT ![p].status = status]
            /\ resp' = Resp("putPetStatus", "200", p, status)
    /\ UNCHANGED <<adoptions, inflight>>
    /\ UNCHANGED <<activityVars, authVars>>

\* a call of updateStatus on document i
UpdateStatus(i, newStatus) ==
    /\ i \in DOMAIN adoptions
    /\ Len(adoptions[i].timeline) + 2 <= MaxTimeline
    /\ adoptions' = Stored(i, updateStatus(adoptions[i], newStatus))
    /\ resp' = Resp("updateStatus", "ok", i, newStatus)
    /\ UNCHANGED <<pets, inflight>>
    /\ UNCHANGED <<activityVars, authVars>>

\* a call of scheduleVisit on document i
ScheduleVisit(i, visitData) ==
    /\ i \in DOMAIN adoptions
    /\ Len(adoptions[i].visits) < MaxVisits
    /\ adoptions' = Stored(i, scheduleVisit(adoptions[i], visitData))
    /\ resp' = Resp("scheduleVisit", "ok", i, visitData)
    /\ UNCHANGED <<pets, inflight>>
    /\ UNCHANGED <<activityVars, authVars>>

\* a call of completeVisit on document i; visit 0 is an id visits.id() does not find
CompleteVisit(i, v, outcome) ==
    /\ i \in DOMAIN adoptions
    /\ IF v \in DOMAIN adoptions[i].visits
          THEN LET done == completeVisit(adoptions[i], v, outcome) IN
               /\ Len(adoptions[i].timeline) + 1 <= MaxTimeline
               /\ adoptions' = Stored(i, done)
               /\ resp' = Resp("completeVisit", "ok", i, outcome)
       ELSE /\ resp' = Resp("completeVisit", "Visit not found", i, outcome)
            /\ UNCHANGED adoptions
    /\ UNCHANGED <<pets, inflight>>
    /\ UNCHANGED <<activityVars, authVars>>

\* a call of processPayment on document i
ProcessPayment(i, amount) ==
    /\ i \in DOMAIN adoptions
    /\ Len(adoptions[i].timeline) + 1 <= MaxTimeline
    /\ adoptions[i].fees.paid + amount \in (0 - MaxPaid)..MaxPaid
    /\ adoptions' = Stored(i, processPayment(adoptions[i], amount))
    /\ resp' = Resp("processPayment", "ok", i, amount)
    /\ UNCHANGED <<pets, inflight>>
    /\ UNCHANGED <<activityVars, authVars>>

\* an additional fee put on document i and saved
AddFee(i, amount) ==
    /\ i \in DOMAIN adoptions
    /\ Len(adoptions[i].fees.additional) < MaxAdditional
    /\ adoptions' = Stored(i, addFee(adoptions[i], amount))
    /\ resp' = Resp("addFee", "ok", i, amount)
    /\ UNCHANGED <<pets, inflight>>
    /\ UNCHANGED <<activityVars, authVars>>

\* DELETE /api/adoptions/:id sent by user, who holds role
DeleteAdoption(i, user, role) ==
    /\ IF i \notin DOMAIN adoptions
          THEN /\ resp' = Resp("deleteAdoption", "404", i, user)
               /\ UNCHANGED adoptions
       ELSE IF cancelCode(adoptions[i], user, role) # "200"
          THEN /\ resp' = Resp("deleteAdoption", cancelCode(adoptions[i], user, role), i, user)
               /\ UNCHANGED adoptions
       ELSE /\ Len(adoptions[i].timeline) + 1 <= MaxTimeline
            /\ adoptions' = Stored(i, save(adoptions[i], setStatus(adoptions[i], "cancelled")))
            /\ resp' = Resp("deleteAdoption", "200", i, user)
    /\ UNCHANGED <<pets, inflight>>
    /\ UNCHANGED <<activityVars, authVars>>

\* PUT /api/adoptions/:id sent by user with body.adoptionDetails = body
UpdateDetails(i, user, body) ==
    /\ IF i \notin DOMAIN adoptions
          THEN /\ resp' = Resp("putAdoption", "404", i, user)
               /\ UNCHANGED adoptions
       ELSE IF updateCode(adoptions[i], user) # "200"
          THEN /\ resp' = Resp("putAdoption", updateCode(adoptions[i], user), i, user)
               /\ UNCHANGED adoptions
       ELSE /\ adoptions' = Stored(i, save(adoptions[i],
                                [adoptions[i] EXCEPT
                                    !.adoptionDetails = mergeDetails(@, body)]))
            /\ resp' = Resp("putAdoption", "200", i, user)
    /\ UNCHANGED <<pets, inflight>>
    /\ UNCHANGED <<activityVars, authVars>>

\* a call of addNote on document i
AddNote(i, content) ==
    /\ i \in DOMAIN adoptions
    /\ Len(adoptions[i].internalNotes) < MaxNotes
    /\ adoptions' = Stored(i, addNote(adoptions[i], content))
    /\ resp' = Resp("addNote", "ok", i, content)
    /\ UNCHANGED <<pets, inflight>>
    /\ UNCHANGED <<activityVars, authVars>>

\* the life of one application: one submission, then the status, payment and
\* fee operations on it
Next ==
    \/ \E u \in Applicants, p \in PetIds :
          adoptions = <<>> /\ inflight = <<>> /\ PostAdoptionCheck(u, p)
    \/ \E k \in DOMAIN inflight, fee \in FeeValues : PostAdoptionCreate(k, fee)
    \/ \E i \in Ids, role \in Roles, s \in RouteInputs, ps \in BOOLEAN, ds \in BOOLEAN :
          PutStatus(i, role, s, ps, ds)
    \/ \E i \in DOMAIN adoptions, s \in UpdateInputs : UpdateStatus(i, s)
    \/ \E i \in DOMAIN adoptions, a \in Amounts : ProcessPayment(i, a)
    \/ \E i \in DOMAIN adoptions, a \in AdditionalAmounts : AddFee(i, a)

Spec == Init /\ [][Next]_vars

\* the same life when every payment has a positive amount
NextPositivePayments ==
    \/ \E u \in Applicants, p \in PetIds :
          adoptions = <<>> /\ inflight = <<>> /\ PostAdoptionCheck(u, p)
    \/ \E k \in DOMAIN inflight, fee \in FeeValues : PostAdoptionCreate(k, fee)
    \/ \E i \in Ids, role \in Roles, s \in RouteInputs, ps \in BOOLEAN, ds \in BOOLEAN :
          PutStatus(i, role, s, ps, ds)
    \/ \E i \in DOMAIN adoptions, s \in UpdateInputs : UpdateStatus(i, s)
    \/ \E i \in DOMAIN adoptions, a \in {x \in Amounts : x > 0} : ProcessPayment(i, a)
    \/ \E i \in DOMAIN adoptions, a \in AdditionalAmounts : AddFee(i, a)

SpecPositivePayments == Init /\ [][NextPositivePayments]_vars

\* the same life with the visit sub-workflow
NextVisits ==
    \/ Next
    \/ \E i \in DOMAIN adoptions, vd \in VisitData : ScheduleVisit(i, vd)
    \/ \E i \in DOMAIN adoptions, v \in 0..MaxVisits, o \in Outcomes :
          CompleteVisit(i, v, o)

SpecVisits == Init /\ [][NextVisits]_vars

\* one application and the calls of its methods
NextMethods ==
    \/ \E u \in Applicants, p \in PetIds :
          adoptions = <<>> /\ inflight = <<>> /\ PostAdoptionCheck(u, p)
    \/ \E k \in DOMAIN inflight, fee \in FeeValues : PostAdoptionCreate(k, fee)
    \/ \E i \in DOMAIN adoptions, s \in UpdateInputs : UpdateStatus(i, s)
    \/ \E i \in DOMAIN adoptions, a \in Amounts : ProcessPayment(i, a)
    \/ \E i \in DOMAIN adoptions, a \in AdditionalAmounts : AddFee(i, a)
    \/ \E i \in DOMAIN adoptions, vd \in VisitData : ScheduleVisit(i, vd)
    \/ \E i \in DOMAIN adoptions, v \in 0..MaxVisits, o \in Outcomes :
          CompleteVisit(i, v, o)

SpecMethods == Init /\ [][NextMethods]_vars

\* statuses sent to the status route and note contents passed to addNote in
\* the specification of every operation on one application
LifecycleRouteInputs == {"pending", "approved"}
LifecycleUpdateInputs == {"adoption-approved"}
LifecycleVisitData == [type : {"meet-and-greet"}, status : {"scheduled", "completed"}]
NoteContents == {"note"}

\* the actors of that specification: the applicant, another user, an admin
Actors ==
    {[user |-> "u1", role |-> "user"],
     [user |-> "u2", role |-> "user"],
     [user |-> "u2", role |-> "admin"]}

\* one application and every operation that writes it: the methods, the
\* status route, the detail update and the cancel route
NextLifecycle ==
    \/ \E u \in Applicants, p \in PetIds :
          adoptions = <<>> /\ inflight = <<>> /\ PostAdoptionCheck(u, p)
    \/ \E k \in DOMAIN inflight, fee \in FeeValues : PostAdoptionCreate(k, fee)
    \/ \E i \in DOMAIN adoptions, a \in Actors, s \in LifecycleRouteInputs :
          PutStatus(i, a.role, s, TRUE, TRUE)
    \/ \E i \in DOMAIN adoptions, s \in LifecycleUpdateInputs : UpdateStatus(i, s)
    \/ \E i \in DOMAIN adoptions, a \in {x \in Amounts : x > 0} : ProcessPayment(i, a)
    \/ \E i \in DOMAIN adoptions, vd \in LifecycleVisitData : ScheduleVisit(i, vd)
    \/ \E i \in DOMAIN adoptions, v \in 1..MaxVisits, o \in Outcomes :
          CompleteVisit(i, v, o)
    \/ \E i \in DOMAIN adoptions, c \in NoteContents : AddNote(i, c)
    \/ \E i \in Ids, a \in Actors, body \in DetailBodies : UpdateDetails(i, a.user, body)
    \/ \E i \in Ids, a \in Actors : DeleteAdoption(i, a.user, a.role)

SpecLifecycle == Init /\ [][NextLifecycle]_vars

\* one application that is rejected, withdrawn or cancelled, and what is done
\* to it afterwards
NextClose ==
    \/ \E u \in Applicants, p \in PetIds :
          adoptions = <<>> /\ inflight = <<>> /\ PostAdoptionCheck(u, p)
    \/ \E k \in DOMAIN inflight, fee \in FeeValues : PostAdoptionCreate(k, fee)
    \/ \E i \in Ids, role \in Roles, s \in CloseRouteInputs, ps \in BOOLEAN, ds \in BOOLEAN :
          PutStatus(i, role, s, ps, ds)
    \/ \E i \in DOMAIN adoptions, s \in CloseInputs : UpdateStatus(i, s)
    \/ \E i \in DOMAIN adoptions, a \in {x \in Amounts : x > 0} : ProcessPayment(i, a)
    \/ \E i \in Ids, u \in Users, role \in Roles : DeleteAdoption(i, u, role)

SpecClose == Init /\ [][NextClose]_vars

\* concurrent submissions: requests interleave between check and create
NextSubmit ==
    \/ \E u \in Users, p \in PetIds : PostAdoptionCheck(u, p)
    \/ \E k \in DOMAIN inflight, fee \in FeeValues : PostAdoptionCreate(k, fee)
    \/ \E u \in Users, p \in PetIds : AdoptionRequestCheck(u, p)
    \/ \E k \in DOMAIN inflight, fee \in FeeValues : AdoptionRequestCreate(k, fee)
    \/ \E i \in Ids, role \in Roles, s \in RouteInputs, ps \in BOOLEAN, ds \in BOOLEAN :
          PutStatus(i, role, s, ps, ds)

SpecSubmit == Init /\ [][NextSubmit]_vars

\* submissions for pets that an authorized actor marks adopted in between
NextRefusal ==
    \/ \E u \in Users, p \in PetIds : PostAdoptionCheck(u, p)
    \/ \E k \in DOMAIN inflight, fee \in FeeValues : PostAdoptionCreate(k, fee)
    \/ \E u \in Users, p \in PetIds : AdoptionRequestCheck(u, p)
    \/ \E k \in DOMAIN inflight, fee \in FeeValues : AdoptionRequestCreate(k, fee)
    \/ \E i \in Ids, role \in StatusRouteRoles, ps \in BOOLEAN, ds \in BOOLEAN :
          PutStatus(i, role, "completed", ps, ds)

SpecRefusal == Init /\ [][NextRefusal]_vars

\* the writers of a pet's adoption status: submissions, the application
\* status route and the pet status route
NextPets ==
    \/ \E u \in Users, p \in PetIds : PostAdoptionCheck(u, p)
    \/ \E k \in DOMAIN inflight, fee \in FeeValues : PostAdoptionCreate(k, fee)
    \/ \E i \in Ids, role \in Roles, s \in RouteInputs, ps \in BOOLEAN, ds \in BOOLEAN :
          PutStatus(i, role, s, ps, ds)
    \/ \E p \in PetIds, role \in Roles, s \in PetRouteStatuses : PutPetStatus(p, role, s)

SpecPets == Init /\ [][NextPets]_vars

\* activity ids a request may name; "a0" resolves to no activity
ActivityIds == {"a1", "a0"}

\* a call of addParticipant on the activity
AddParticipant(userId, status) ==
    /\ now < MaxClock
    /\ activity' = addParticipant(activity, userId, status, now)
    /\ now' = now + 1
    /\ resp' = Resp("addParticipant",
                     IF validActivity(pushParticipant(activity, userId, status, now))
                        THEN "ok" ELSE "error", 0, userId)
    /\ UNCHANGED requests
    /\ UNCHANGED <<adoptionVars, authVars>>

\* a call of removeParticipant on the activity
RemoveParticipant(userId) ==
    /\ activity' = removeParticipant(activity, userId)
    /\ resp' = Resp("removeParticipant",
                     IF findByUser(activity.participants, userId) = 0 THEN "false"
                     ELSE IF activity' = activity THEN "error"
                     ELSE "ok", 0, userId)
    /\ UNCHANGED <<requests, now>>
    /\ UNCHANGED <<adoptionVars, authVars>>

\* start dates an activity may carry, on the scale of the clock
StartDates == 0 .. MaxClock

\* new Date(activity.startDate) < new Date()
isPast(startDate, t) == startDate < t

\* POST /api/activities/:id/register; past: whether startDate lies before now
RegisterRoute(id, userId, past) ==
    /\ IF id # "a1"
          THEN /\ resp' = Resp("register", "404", id, userId)
               /\ UNCHANGED <<activity, now>>
       ELSE IF past
          THEN /\ resp' = Resp("register", "400-past", id, userId)
               /\ UNCHANGED <<activity, now>>
       ELSE IF existingRegistration(activity, userId)
          THEN /\ resp' = Resp("register", "400-duplicate", id, userId)
               /\ UNCHANGED <<activity, now>>
       ELSE IF Len(activity.registrations) >= routeCapacity(activity)
          THEN /\ resp' = Resp("register", "400-full", id, userId)
               /\ UNCHANGED <<activity, now>>
       ELSE /\ now < MaxClock
            /\ activity' = saveActivity(activity, pushRegistration(activity, userId, now))
            /\ now' = now + 1
            /\ resp' = Resp("register", "200", id, userId)
    /\ UNCHANGED requests
    /\ UNCHANGED <<adoptionVars, authVars>>

\* DELETE /api/activities/:id/register
UnregisterRoute(id, userId, past) ==
    /\ IF id # "a1"
          THEN /\ resp' = Resp("unregister", "404", id, userId)
               /\ UNCHANGED activity
       ELSE IF past
          THEN /\ resp' = Resp("unregister", "400-past", id, userId)
               /\ UNCHANGED activity
       ELSE IF registrationIndex(activity, userId) = 0
          THEN /\ resp' = Resp("unregister", "400-not-registered", id, userId)
               /\ UNCHANGED activity
       ELSE /\ activity' = saveActivity(activity,
                               spliceRegistration(activity, registrationIndex(activity, userId)))
            /\ resp' = Resp("unregister", "200", id, userId)
    /\ UNCHANGED <<requests, now>>
    /\ UNCHANGED <<adoptionVars, authVars>>

\* the registration objects the body of PUT /api/activities/:id may carry
RegistrationBodies == [required : BOOLEAN, deadline : {"none", "given"}]

\* PUT /api/activities/:id with a body that holds registration:
\* Activity.findByIdAndUpdate writes the body to the store and runs no save hook
PutActivity(id, role, registration) ==
    /\ IF ~authorize(StatusRouteRoles, role)
          THEN /\ resp' = Resp("putActivity", "403", id, role)
               /\ UNCHANGED activity
       ELSE IF id # "a1"
          THEN /\ resp' = Resp("putActivity", "404", id, role)
               /\ UNCHANGED activity
       ELSE /\ activity' = [activity EXCEPT !.registration = registration]
            /\ resp' = Resp("putActivity", "200", id, role)
    /\ UNCHANGED <<requests, now>>
    /\ UNCHANGED <<adoptionVars, authVars>>

\* Activity.findById, then save() of the document as loaded
ResaveActivity ==
    /\ activity' = saveActivity(activity, activity)
    /\ resp' = Resp("saveActivity", "ok", "a1", 0)
    /\ UNCHANGED <<requests, now>>
    /\ UNCHANGED <<adoptionVars, authVars>>

\* Adoption.findById(i), then save() of the document as loaded
ResaveAdoption(i) ==
    /\ i \in DOMAIN adoptions
    /\ adoptions' = Stored(i, save(adoptions[i], adoptions[i]))
    /\ resp' = Resp("saveAdoption", "ok", i, 0)
    /\ UNCHANGED <<pets, inflight>>
    /\ UNCHANGED <<activityVars, authVars>>

\* an activity as Activity.create stores it for a body with or without
\* registration.required = false
InitSave ==
    /\ InitAdoptions
    /\ InitAuth
    /\ activity \in {[newActivity(max) EXCEPT !.registration = r] :
                        max \in 1..MaxCapacity,
                        r \in {[required |-> TRUE, deadline |-> "start-1d"],
                               [required |-> FALSE, deadline |-> "none"]}}
    /\ requests = <<>>
    /\ now = 0

\* documents that are written, and saved again as they were loaded
NextSave ==
    \/ \E u \in Applicants, p \in PetIds :
          adoptions = <<>> /\ inflight = <<>> /\ PostAdoptionCheck(u, p)
    \/ \E k \in DOMAIN inflight, fee \in FeeValues : PostAdoptionCreate(k, fee)
    \/ \E i \in DOMAIN adoptions, a \in Amounts : ProcessPayment(i, a)
    \/ \E i \in DOMAIN adoptions, a \in AdditionalAmounts : AddFee(i, a)
    \/ \E i \in DOMAIN adoptions : ResaveAdoption(i)
    \/ \E u \in Applicants : AddParticipant(u, "registered")
    \/ \E id \in ActivityIds, role \in Roles, r \in RegistrationBodies : PutActivity(id, role, r)
    \/ ResaveActivity

SpecSave == InitSave /\ [][NextSave]_vars

\* the model methods called one after the other
NextActivity ==
    \/ \E u \in Users, s \in StatusArgs : AddParticipant(u, s)
    \/ \E u \in Users : RemoveParticipant(u)

SpecActivity == InitActivity /\ [][NextActivity]_vars

\* the register routes, with the model methods beside them
NextRegister ==
    \/ \E id \in ActivityIds, u \in Users, start \in StartDates :
          RegisterRoute(id, u, isPast(start, now))
    \/ \E id \in ActivityIds, u \in Users, start \in StartDates :
          UnregisterRoute(id, u, isPast(start, now))
    \/ \E u \in Users : AddParticipant(u, "registered")
    \/ \E u \in Users : RemoveParticipant(u)

SpecRegister == InitActivity /\ [][NextRegister]_vars

\* a request loads the activity (Activity.findById) to register userId on it;
\* a user has one request under way at a time
LoadActivity(userId) ==
    /\ Len(requests) < MaxRequests
    /\ \A k \in DOMAIN requests : requests[k].user # userId
    /\ requests' = Append(requests, [user |-> userId, loaded |-> activity])
    /\ resp' = Resp("findById", "ok", "a1", userId)
    /\ UNCHANGED <<activity, now>>
    /\ UNCHANGED <<adoptionVars, authVars>>

\* request k calls addParticipant on the copy it loaded; save() writes the
\* changes of that copy to the document the store holds by then
SaveParticipant(k) ==
    /\ k \in DOMAIN requests
    /\ now < MaxClock
    /\ LET loaded == requests[k].loaded
           local == pushParticipant(loaded, requests[k].user, "registered", now)
       IN /\ activity' = saveDelta(activity, loaded, local)
          /\ resp' = Resp("addParticipant",
                           IF validActivity(local) THEN "ok" ELSE "error",
                           "a1", requests[k].user)
    /\ requests' = SubSeq(requests, 1, k - 1) \o SubSeq(requests, k + 1, Len(requests))
    /\ now' = now + 1
    /\ UNCHANGED <<adoptionVars, authVars>>

\* register requests that interleave between their load and their save
NextRace ==
    \/ \E u \in Users : LoadActivity(u)
    \/ \E k \in DOMAIN requests : SaveParticipant(k)
    \/ \E u \in Users : RemoveParticipant(u)

SpecRace == InitActivity /\ [][NextRace]_vars

----------------------------------------------------------------------------
(* middleware/auth.js: sensitiveOperationLimit *)

\* addresses requests come from, and the users of their keys ("": no req.user)
Ips == {"ip1"}
LimiterUsers == {"", "u1"}

\* req.ip + (req.user ? req.user.id : '')
limitKey(ip, user) == <<ip, user>>

LimiterKeys == {limitKey(ip, user) : ip \in Ips, user \in LimiterUsers}

\* attempts.get(key) || []
mapGet(m, key) == IF key \in DOMAIN m THEN m[key] ELSE <<>>

\* attempts.set(key, value)
mapSet(m, key, value) == [k \in DOMAIN m \cup {key} |-> IF k = key THEN value ELSE m[k]]

\* attempts.get(key).filter(time => time > windowStart)
inWindow(times, windowStart) == SelectSeq(times, LAMBDA time : time > windowStart)

\* Clean old attempts
cleanAttempts(m, key, windowStart) ==
    IF key \in DOMAIN m THEN mapSet(m, key, inWindow(m[key], windowStart)) ELSE m

\* the limiter with the push ahead of the test: a refused request counts too
sensitiveOperationLimitCountingAll(lim, key, t) ==
    LET cleaned == cleanAttempts(lim.attempts, key, t - lim.windowMs)
        currentAttempts == mapGet(cleaned, key)
    IN [code |-> IF Len(currentAttempts) >= lim.maxAttempts THEN "429" ELSE "next",
        attempts |-> mapSet(cleaned, key, Append(currentAttempts, t))]

\* the middleware sensitiveOperationLimit returns, called at time t: the
\* answer ("next" for next()) and the attempts Map afterwards
sensitiveOperationLimit(lim, key, t) ==
    LET cleaned == cleanAttempts(lim.attempts, key, t - lim.windowMs)
        currentAttempts == mapGet(cleaned, key)
    IN IF Len(currentAttempts) >= lim.maxAttempts
          THEN [code |-> "429", attempts |-> cleaned]
       ELSE [code |-> "next",
             attempts |-> mapSet(cleaned, key, Append(currentAttempts, t))]

\* a request with key ip + user reaches the limiter of route
LimitedRequest(route, ip, user) ==
    /\ LET r == sensitiveOperationLimit(limiters[route], limitKey(ip, user), now)
       IN /\ r.code = "next" => Len(passed) < MaxPassed
          /\ limiters' = [limiters EXCEPT ![route].attempts = r.attempts]
          /\ passed' = IF r.code = "next"
                          THEN Append(passed, [route |-> route,
                                               key |-> limitKey(ip, user), at |-> now])
                       ELSE passed
          /\ resp' = Resp(route, r.code, ip, user)
    /\ UNCHANGED <<accounts, pending>>
    /\ UNCHANGED <<adoptionVars, activityVars>>

\* a millisecond passes
Tick ==
    /\ now < MaxClock
    /\ now' = now + 1
    /\ UNCHANGED <<resp, activity, requests>>
    /\ UNCHANGED <<adoptionVars, authVars>>

\* the login limiter with any attempts and window, the limiter of
\* DELETE /api/auth/me with its one attempt per window
InitLimiter ==
    /\ InitAdoptions
    /\ activity = newActivity(1)
    /\ requests = <<>>
    /\ now = 0
    /\ accounts = [u \in Users |-> newUser("user")]
    /\ pending = {}
    /\ limiters \in {[r \in LimitRoutes |->
                         IF r = "login" THEN newLimiter(m, w) ELSE newLimiter(1, MaxWindow)] :
                     m \in 1..MaxLimit, w \in 1..MaxWindow}
    /\ passed = <<>>

\* requests at the login limiter while time passes
NextLimiter ==
    \/ \E ip \in Ips, user \in LimiterUsers : LimitedRequest("login", ip, user)
    \/ Tick

SpecLimiter == InitLimiter /\ [][NextLimiter]_vars

----------------------------------------------------------------------------
(* middleware/auth.js: protect; routes/auth.js, routes/users.js *)

\* the users a valid token may name; "u0" resolves to no user
TokenUsers == Users \cup {"u0"}

\* the protected requests of the model: what the handler is to do
Requests ==
    {[route |-> "getMe", target |-> "none", isActive |-> FALSE],
     [route |-> "deleteMe", target |-> "none", isActive |-> FALSE]}
    \cup {[route |-> "putUserStatus", target |-> t, isActive |-> b] :
              t \in Users, b \in BOOLEAN}
    \cup {[route |-> "deleteUser", target |-> t, isActive |-> FALSE] : t \in Users}

\* protect with no test of req.user.isActive
protectAnyAccount(accts, u) ==
    IF u \notin DOMAIN accts THEN "401-not-found" ELSE "next"

\* protect for a request whose token verifies and names user u
protect(accts, u) ==
    IF u \notin DOMAIN accts THEN "401-not-found"
    ELSE IF ~accts[u].isActive THEN "401-deactivated"
    ELSE "next"

\* Adoption.countDocuments({adopter, status: {$in: ['pending', 'approved']}})
activeAdoptions(docs, u) ==
    Cardinality({i \in DOMAIN docs :
                    docs[i].adopter = u /\ docs[i].status \in {"pending", "approved"}})

\* a request of user u arrives at a protected route: protect loads req.user
\* and calls next(), or answers 401
Protect(u, req) ==
    /\ IF protect(accounts, u) = "next"
          THEN /\ Cardinality(pending) < MaxPending
               /\ pending' = pending \cup {[user |-> u, role |-> accounts[u].role,
                                            route |-> req.route, target |-> req.target,
                                            isActive |-> req.isActive]}
       ELSE UNCHANGED pending
    /\ resp' = Resp("protect", protect(accounts, u), u, req.route)
    /\ UNCHANGED <<accounts, limiters, passed>>
    /\ UNCHANGED <<adoptionVars, activityVars>>

\* GET /api/auth/me
GetMe(r) ==
    /\ resp' = Resp("getMe", "200", r.user, 0)
    /\ UNCHANGED <<accounts, limiters, passed>>

\* DELETE /api/auth/me behind its limiter
DeleteMe(r, ip) ==
    LET l == sensitiveOperationLimit(limiters["deleteMe"], limitKey(ip, r.user), now)
    IN /\ limiters' = [limiters EXCEPT !["deleteMe"].attempts = l.attempts]
       /\ IF l.code = "429"
             THEN /\ resp' = Resp("deleteMe", "429", r.user, 0)
                  /\ UNCHANGED accounts
          ELSE /\ accounts' = [accounts EXCEPT ![r.user].isActive = FALSE]
               /\ resp' = Resp("deleteMe", "200", r.user, 0)
       /\ UNCHANGED passed

\* PUT /api/users/:id/status
PutUserStatus(r) ==
    /\ IF ~authorize({"admin"}, r.role)
          THEN /\ resp' = Resp("putUserStatus", "403", r.target, r.isActive)
               /\ UNCHANGED accounts
       ELSE IF r.target \notin DOMAIN accounts
          THEN /\ resp' = Resp("putUserStatus", "404", r.target, r.isActive)
               /\ UNCHANGED accounts
       ELSE IF r.user = r.target /\ ~r.isActive
          THEN /\ resp' = Resp("putUserStatus", "400", r.target, r.isActive)
               /\ UNCHANGED accounts
       ELSE /\ accounts' = [accounts EXCEPT ![r.target].isActive = r.isActive]
            /\ resp' = Resp("putUserStatus", "200", r.target, r.isActive)
    /\ UNCHANGED <<limiters, passed>>

\* DELETE /api/users/:id: the soft delete
DeleteUser(r) ==
    /\ IF ~authorize({"admin"}, r.role)
          THEN /\ resp' = Resp("deleteUser", "403", r.target, 0)
               /\ UNCHANGED accounts
       ELSE IF r.target \notin DOMAIN accounts
          THEN /\ resp' = Resp("deleteUser", "404", r.target, 0)
               /\ UNCHANGED accounts
       ELSE IF r.user = r.target \/ activeAdoptions(adoptions, r.target) > 0
          THEN /\ resp' = Resp("deleteUser", "400", r.target, 0)
               /\ UNCHANGED accounts
       ELSE /\ accounts' = [accounts EXCEPT ![r.target].isActive = FALSE,
                                            ![r.target].email = "deleted"]
            /\ resp' = Resp("deleteUser", "200", r.target, 0)
    /\ UNCHANGED <<limiters, passed>>

\* the rest of the middleware chain and the handler of a request that
\* protect passed on
Handle(r, ip) ==
    /\ r \in pending
    /\ pending' = pending \ {r}
    /\ CASE r.route = "getMe" -> GetMe(r)
         [] r.route = "deleteMe" -> DeleteMe(r, ip)
         [] r.route = "putUserStatus" -> PutUserStatus(r)
         [] r.route = "deleteUser" -> DeleteUser(r)
    /\ UNCHANGED <<adoptionVars, activityVars>>

\* POST /api/auth/login with the email of account u, behind its limiter;
\* passwordOk: whether the password matches
Login(ip, u, passwordOk) ==
    LET l == sensitiveOperationLimit(limiters["login"], limitKey(ip, ""), now)
    IN /\ limiters' = [limiters EXCEPT !["login"].attempts = l.attempts]
       /\ resp' = Resp("login",
                        IF l.code = "429" THEN "429"
                        ELSE IF u \notin DOMAIN accounts THEN "401-invalid"
                        ELSE IF accounts[u].email # "own" THEN "401-invalid"
                        ELSE IF ~accounts[u].isActive THEN "401-deactivated"
                        ELSE IF ~passwordOk THEN "401-invalid"
                        ELSE "200", u, 0)
       /\ UNCHANGED <<accounts, pending, passed>>
       /\ UNCHANGED <<adoptionVars, activityVars>>

\* active accounts, an admin among them; limiters within one window
InitAccounts ==
    /\ InitAdoptions
    /\ activity = newActivity(1)
    /\ requests = <<>>
    /\ now = 0
    /\ accounts \in {[u \in Users |-> newUser(IF u = "u2" THEN "admin" ELSE role)] :
                      role \in {"user", "admin"}}
    /\ pending = {}
    /\ limiters = [r \in LimitRoutes |->
                      IF r = "login" THEN newLimiter(MaxLimit, MaxWindow)
                      ELSE newLimiter(1, MaxWindow)]
    /\ passed = <<>>

\* requests with valid tokens and logins, their handlers interleaved
NextAccounts ==
    \/ \E u \in TokenUsers, req \in Requests : Protect(u, req)
    \/ \E r \in pending, ip \in Ips : Handle(r, ip)
    \/ \E ip \in Ips, u \in TokenUsers, ok \in BOOLEAN : Login(ip, u, ok)

SpecAccounts == InitAccounts /\ [][NextAccounts]_vars

----------------------------------------------------------------------------
(* Properties *)

\* the successor of a status on the main chain of the transition graph
ChainSuccessor(s) ==
    CASE s = "submitted" -> {"under-review"}
      [] s = "under-review" -> {"approved"}
      [] s = "approved" -> {"meet-scheduled"}
      [] s = "meet-scheduled" -> {"meet-completed"}
      [] s = "meet-completed" -> {"home-visit-scheduled", "adoption-approved"}
      [] s = "home-visit-scheduled" -> {"home-visit-completed"}
      [] s = "home-visit-completed" -> {"adoption-approved"}
      [] s = "adoption-approved" -> {"adoption-completed"}
      [] s = "adoption-completed" -> {"adoption-returned"}
      [] OTHER -> {}

\* the transition graph: the chain, plus rejected / withdrawn / on-hold from
\* every active status
AllowedTransition(from, to) ==
    \/ to \in ChainSuccessor(from)
    \/ /\ isActive([status |-> from])
       /\ to \in {"rejected", "withdrawn", "on-hold"}

\* C1: a status update whose new status is not a successor of the current
\* status fails with InvalidTransition and leaves status and timeline unchanged
\* (stated for updateStatus; the code applies every update).
C1_InvalidTransitionRejected ==
    [][\A i \in DOMAIN adoptions, s \in UpdateInputs :
          (UpdateStatus(i, s) /\ ~AllowedTransition(adoptions[i].status, s))
          => /\ resp'.code = "InvalidTransition"
             /\ adoptions'[i].status = adoptions[i].status
             /\ adoptions'[i].timeline = adoptions[i].timeline]_vars

\* C2: each successful transition through updateStatus appends exactly one
\* timeline entry, whose status is the new status (so the timeline length is one
\* plus the number of transitions).
C2_OneEntryPerTransition ==
    [][\A i \in DOMAIN adoptions, s \in UpdateInputs :
          UpdateStatus(i, s)
          => adoptions'[i].timeline = Append(adoptions[i].timeline, s)]_vars

\* the statuses that mean the adoption is completed: the schema's and the
\* status route's
CompletedStatuses == {"adoption-completed", "completed"}

\* C3: in every state, an application whose status is adoption-completed
\* references a pet whose adoption status is adopted.
C3_CompletedImpliesAdopted ==
    \A i \in DOMAIN adoptions :
        adoptions[i].status \in CompletedStatuses
        => pets[adoptions[i].pet].status = "adopted"

ShelterOrAdmin == {"shelter", "shelter_admin", "admin"}

\* C6: a status-route request by an actor that is neither shelter nor admin is
\* answered 403 and changes nothing; one by a shelter or admin actor is not
\* answered 403.
C6_RoleCheck ==
    [][\A i \in Ids, role \in Roles, s \in RouteInputs, ps \in BOOLEAN, ds \in BOOLEAN :
          PutStatus(i, role, s, ps, ds)
          => IF role \in ShelterOrAdmin
                THEN resp'.code # "403"
             ELSE /\ resp'.code = "403"
                  /\ adoptions' = adoptions
                  /\ pets' = pets]_vars

\* C7: in every stored document fees.total is fees.adoption plus the sum of
\* the amounts of fees.additional.
C7_TotalIsSum ==
    \A i \in DOMAIN adoptions :
        adoptions[i].fees.total
            = adoptions[i].fees.adoption + SumSeq(adoptions[i].fees.additional)

\* C7 witness: a stored document whose additional fee was added after creation
\* and counted in the total
C7_Witness ==
    /\ resp.op = "addFee"
    /\ \E i \in DOMAIN adoptions :
          /\ adoptions[i].fees.additional # <<>>
          /\ adoptions[i].fees.total > adoptions[i].fees.adoption

\* the payment status the claim derives from paid and total
DerivedPaymentStatus(paid, total) ==
    IF paid >= total THEN "paid"
    ELSE IF paid > 0 THEN "partial"
    ELSE "pending"

\* C8: in every stored document fees.paymentStatus is the function of paid and
\* total: paid >= total gives paid, 0 < paid < total partial, otherwise pending.
C8_PaymentStatusDerived ==
    \A i \in DOMAIN adoptions :
        adoptions[i].fees.paymentStatus
            = DerivedPaymentStatus(adoptions[i].fees.paid, adoptions[i].fees.total)

\* C9: processPayment with amount > 0 adds amount to fees.paid; the status
\* becomes adoption-completed when the resulting paid >= total and the status
\* was adoption-approved, and is unchanged otherwise.
C9_ProcessPaymentEffect ==
    [][\A i \in DOMAIN adoptions, a \in Amounts :
          (a > 0 /\ ProcessPayment(i, a))
          => /\ adoptions'[i].fees.paid = adoptions[i].fees.paid + a
             /\ adoptions'[i].status =
                   IF /\ adoptions[i].fees.paid + a >= adoptions[i].fees.total
                      /\ adoptions[i].status = "adoption-approved"
                   THEN "adoption-completed"
                   ELSE adoptions[i].status]_vars

\* C9 witness: a payment that reached the total has just advanced an
\* adoption-approved application to adoption-completed
C9_Witness ==
    /\ resp.op = "processPayment"
    /\ \E i \in DOMAIN adoptions :
          LET t == adoptions[i].timeline IN
          /\ adoptions[i].status = "adoption-completed"
          /\ adoptions[i].fees.paid >= adoptions[i].fees.total
          /\ adoptions[i].fees.paid > 0
          /\ Len(t) >= 2
          /\ t[Len(t)] = "adoption-completed"
          /\ t[Len(t) - 1] = "adoption-approved"

\* C10: processPayment with amount <= 0 fails with ValidationError and leaves
\* fees.paid, fees.paymentStatus, status and timeline unchanged.
C10_NonPositiveAmountRejected ==
    [][\A i \in DOMAIN adoptions, a \in Amounts :
          (a <= 0 /\ ProcessPayment(i, a))
          => /\ resp'.code = "ValidationError"
             /\ adoptions'[i].fees.paid = adoptions[i].fees.paid
             /\ adoptions'[i].fees.paymentStatus = adoptions[i].fees.paymentStatus
             /\ adoptions'[i].status = adoptions[i].status
             /\ adoptions'[i].timeline = adoptions[i].timeline]_vars

----------------------------------------------------------------------------
(* Properties of the activity registration *)

\* C11: after every call of any sequence of addParticipant and
\* removeParticipant calls on a new activity, capacity.current is at most
\* capacity.max.
C11_CurrentWithinMax == activity.capacity.current <= activity.capacity.max

\* a full activity with somebody waiting, left by a removeParticipant that
\* promoted from the waitlist
C11_Witness ==
    /\ resp.op = "removeParticipant"
    /\ resp.code = "ok"
    /\ activity.capacity.current = activity.capacity.max
    /\ countStatus(activity.participants, "waitlisted") > 0

\* C12: in every state reached by addParticipant (with any status argument of
\* the enum) and removeParticipant calls, capacity.current is the number of
\* participants with status registered and capacity.waitlist the number with
\* status waitlisted.
C12_CountersMatchParticipants ==
    /\ activity.capacity.current = countStatus(activity.participants, "registered")
    /\ activity.capacity.waitlist = countStatus(activity.participants, "waitlisted")

\* the entries of a participants list
Entries(participants) == {participants[i] : i \in DOMAIN participants}

\* the waitlisted entries with the earliest registeredAt
EarliestWaitlisted(participants) ==
    {e \in Entries(participants) :
        /\ e.status = "waitlisted"
        /\ \A f \in Entries(participants) :
              f.status = "waitlisted" => e.registeredAt <= f.registeredAt}

\* entry e of the list before the call is registered in the list after it
PromotedBy(e, after) == [e EXCEPT !.status = "registered"] \in Entries(after)

\* what the claim says of removeParticipant(userId) called on document doc
\* and leaving document after
UnregisterEffect(doc, userId, after) ==
    LET idx == findByUser(doc.participants, userId)
        waiting == {e \in Entries(doc.participants) : e.status = "waitlisted"}
    IN /\ (idx # 0 /\ doc.participants[idx].status = "registered" /\ waiting # {}) =>
             /\ \E e \in EarliestWaitlisted(doc.participants) :
                   /\ PromotedBy(e, after.participants)
                   /\ \A f \in waiting \ {e} : ~PromotedBy(f, after.participants)
             /\ after.capacity.current = doc.capacity.current
             /\ after.capacity.waitlist = doc.capacity.waitlist - 1
       /\ (idx # 0 /\ doc.participants[idx].status = "waitlisted") =>
             /\ \A f \in waiting : ~PromotedBy(f, after.participants)
             /\ after.capacity.current = doc.capacity.current
             /\ after.capacity.waitlist = doc.capacity.waitlist - 1

\* C13: when a registered participant unregisters while somebody is
\* waitlisted, exactly one waitlisted participant, the one with the earliest
\* registeredAt, becomes registered, current stays and waitlist drops by one;
\* when a waitlisted participant unregisters only waitlist drops by one.
C13_FifoPromotion ==
    [][\A u \in Users :
          RemoveParticipant(u) => UnregisterEffect(activity, u, activity')]_vars

\* userId has an entry on the activity that is not cancelled, in participants
\* or in the list the routes keep
hasRegistration(doc, userId) ==
    \/ \E e \in Entries(doc.participants) : e.user = userId /\ e.status # "cancelled"
    \/ existingRegistration(doc, userId)

\* what the claim says of a register request of userId on document doc that
\* leaves document after
RegisterEffect(doc, userId, after) ==
    LET status == IF doc.capacity.current < doc.capacity.max
                     THEN "registered" ELSE "waitlisted"
    IN /\ Len(after.participants) = Len(doc.participants) + 1
       /\ after.participants[Len(after.participants)].user = userId
       /\ after.participants[Len(after.participants)].status = status
       /\ after.capacity.current =
             doc.capacity.current + (IF status = "registered" THEN 1 ELSE 0)
       /\ after.capacity.waitlist =
             doc.capacity.waitlist + (IF status = "waitlisted" THEN 1 ELSE 0)

\* C14: a register request that passes its preconditions (the activity has
\* not started, the user has no entry that is not cancelled) adds the user as
\* a participant: registered with current raised by one while current < max,
\* waitlisted with waitlist raised by one otherwise.
C14_RegisterAdds ==
    [][\A u \in Users :
          (/\ ~hasRegistration(activity, u)
           /\ \/ RegisterRoute("a1", u, FALSE)
              \/ AddParticipant(u, "registered"))
          => RegisterEffect(activity, u, activity')]_vars

\* C15: a register request for a user who already has an entry that is not
\* cancelled fails and leaves the participants, the registrations and the
\* counters as they were.
C15_DuplicateRejected ==
    [][\A u \in Users :
          (/\ hasRegistration(activity, u)
           /\ \/ RegisterRoute("a1", u, FALSE)
              \/ AddParticipant(u, "registered"))
          => /\ resp'.code \notin {"200", "ok"}
             /\ activity' = activity]_vars

\* C16: concurrent register requests on one activity are serialized: the
\* participants with status registered never outnumber capacity.max.
C16_RegisteredWithinMax ==
    countStatus(activity.participants, "registered") <= activity.capacity.max

----------------------------------------------------------------------------
(* Properties of withdrawal, rejection and submission *)

\* C17: rejected and withdrawn are terminal: no operation changes the status
\* of an application whose status is rejected or withdrawn.
C17_TerminalStatuses ==
    [][\A i \in DOMAIN adoptions :
          adoptions[i].status \in {"rejected", "withdrawn"}
          => adoptions'[i].status = adoptions[i].status]_vars

\* the actors the claim lets withdraw document doc: its applicant while the
\* status is submitted, or an admin
MayWithdraw(doc, user, role) ==
    \/ doc.adopter = user /\ doc.status = "submitted"
    \/ role \in CancelAdminRoles

RefusedWith(code) ==
    /\ resp'.code = code
    /\ UNCHANGED <<adoptions, pets, inflight>>

\* C19: a submit request fails with 404 (NotFound) when the pet does not
\* exist and with 400 'not available' (Conflict) when the pet's adoption
\* status is not available; no application is created and the pet is unchanged.
C19_SubmitRefused ==
    [][\A u \in Users, p \in PetIds :
          (PostAdoptionCheck(u, p) \/ AdoptionRequestCheck(u, p))
          => /\ p \notin Pets => RefusedWith("404")
             /\ (p \in Pets /\ pets[p].status # "available")
                   => RefusedWith("400-unavailable")]_vars

\* a submit request for an adopted pet was refused
C19_Witness ==
    /\ resp.op \in {"postAdoption", "adoptionRequest"}
    /\ resp.code = "400-unavailable"
    /\ \E p \in Pets : pets[p].status = "adopted"

----------------------------------------------------------------------------
(* Properties of visits, the timeline and the detail update *)

\* the status the claim gives an application after completeVisit on a visit
\* of the given type with the given outcome
StatusAfterVisit(status, type, outcome) ==
    IF outcome = "approved"
       THEN IF type = "meet-and-greet" THEN "meet-completed"
            ELSE "home-visit-completed"
    ELSE IF outcome = "rejected" THEN "rejected"
    ELSE status

\* C21: completeVisit on a visit the application holds marks it completed with
\* the outcome and sets the status by outcome and visit type (approved:
\* meet-completed / home-visit-completed, rejected: rejected, otherwise
\* unchanged); on a visit it does not hold it fails and changes nothing.
C21_CompleteVisitEffect ==
    [][\A i \in DOMAIN adoptions, v \in 0..MaxVisits, o \in Outcomes :
          CompleteVisit(i, v, o)
          => IF v \in DOMAIN adoptions[i].visits
                THEN /\ adoptions'[i].visits[v].status = "completed"
                     /\ adoptions'[i].visits[v].outcome = o
                     /\ adoptions'[i].status =
                           StatusAfterVisit(adoptions[i].status,
                                            adoptions[i].visits[v].type, o)
             ELSE /\ resp'.code = "Visit not found"
                  /\ adoptions' = adoptions]_vars

\* the application status the claim requires for a visit of the given type
RequiredStatus(type) ==
    IF type = "meet-and-greet" THEN "approved" ELSE "meet-completed"

\* C22: scheduleVisit succeeds only when the application status matches the
\* visit type (meet-and-greet: approved, home-visit: meet-completed);
\* otherwise it fails and appends no visit.
C22_ScheduleVisitPreconditions ==
    [][\A i \in DOMAIN adoptions, vd \in VisitData :
          (ScheduleVisit(i, vd) /\ adoptions[i].status # RequiredStatus(vd.type))
          => /\ resp'.code # "ok"
             /\ adoptions'[i].visits = adoptions[i].visits]_vars

\* C23: a successful scheduleVisit appends exactly one visit, with status
\* scheduled whatever status visitData carried, and leaves the status, the
\* timeline and the fees of the application unchanged.
C23_ScheduleVisitFrame ==
    [][\A i \in DOMAIN adoptions, vd \in VisitData :
          ScheduleVisit(i, vd)
          => /\ Len(adoptions'[i].visits) = Len(adoptions[i].visits) + 1
             /\ SubSeq(adoptions'[i].visits, 1, Len(adoptions[i].visits))
                   = adoptions[i].visits
             /\ adoptions'[i].visits[Len(adoptions'[i].visits)].status = "scheduled"
             /\ adoptions'[i].visits[Len(adoptions'[i].visits)].type = vd.type
             /\ adoptions'[i].status = adoptions[i].status
             /\ adoptions'[i].timeline = adoptions[i].timeline
             /\ adoptions'[i].fees = adoptions[i].fees]_vars

\* a visit scheduled from visitData that carried another status, on an
\* application that has a partial payment and a timeline
C23_Witness ==
    /\ resp.op = "scheduleVisit"
    /\ \E i \in DOMAIN adoptions :
          /\ adoptions[i].visits # <<>>
          /\ adoptions[i].visits[Len(adoptions[i].visits)].status = "scheduled"
          /\ adoptions[i].timeline # <<>>
          /\ adoptions[i].fees.paymentStatus = "partial"

\* sequence s is a prefix of sequence t
IsPrefix(s, t) == Len(s) <= Len(t) /\ SubSeq(t, 1, Len(s)) = s

\* C24: the timeline is append-only: across every operation on an application
\* the timeline before is a prefix of the timeline after.
C24_TimelineAppendOnly ==
    [][\A i \in DOMAIN adoptions :
          IsPrefix(adoptions[i].timeline, adoptions'[i].timeline)]_vars

\* an application whose timeline has grown through the status route and
\* that was cancelled afterwards
C24_Witness ==
    /\ resp.op = "deleteAdoption"
    /\ resp.code = "200"
    /\ \E i \in DOMAIN adoptions : Len(adoptions[i].timeline) >= 2

\* the statuses the claim calls initial
InitialStatuses == {"submitted", "pending"}

\* the status of doc is, or its timeline shows that it has been, another than
\* the initial one
hasLeftInitial(doc) ==
    \/ doc.status \notin InitialStatuses
    \/ \E k \in DOMAIN doc.timeline : doc.timeline[k] \notin InitialStatuses

----------------------------------------------------------------------------
(* Properties of the register routes, the pet status and saving *)

C27_AdoptedOnlyByCompletion ==
    [][\A p \in Pets :
          (pets[p].status = "pending" /\ pets'[p].status = "adopted")
             => \E i \in DOMAIN adoptions, role \in StatusRouteRoles, ds \in BOOLEAN :
                   /\ adoptions[i].pet = p
                   /\ PutStatus(i, role, "completed", TRUE, ds)]_vars


\* C28: saving an application or an activity as it was loaded from the store
\* leaves the stored document as it was.
C28_SaveIdempotent ==
    [][/\ ResaveActivity => activity' = activity
       /\ \A i \in DOMAIN adoptions : ResaveAdoption(i) => adoptions' = adoptions]_vars

----------------------------------------------------------------------------
(* Properties of the limiter and of deactivated accounts *)

\* the requests with key that the limiter of route passed on at a time in a .. b
passedIn(route, key, a, b) ==
    {i \in DOMAIN passed :
        /\ passed[i].route = route
        /\ passed[i].key = key
        /\ passed[i].at \in a .. b}

\* a request with key reaches the limiter of route while maxAttempts passed
\* requests are inside the window: it is answered 429, is not recorded and
\* leaves the attempts inside the window as they were
RefusedUnrecorded ==
    [][\A route \in LimitRoutes, ip \in Ips, user \in LimiterUsers :
             (/\ LimitedRequest(route, ip, user)
              /\ Cardinality(passedIn(route, limitKey(ip, user),
                                      now - limiters[route].windowMs + 1, now))
                    >= limiters[route].maxAttempts)
             => /\ resp'.code = "429"
                /\ passed' = passed
                /\ inWindow(mapGet(limiters'[route].attempts, limitKey(ip, user)),
                            now - limiters[route].windowMs)
                      = inWindow(mapGet(limiters[route].attempts, limitKey(ip, user)),
                                 now - limiters[route].windowMs)]_vars

\* C29 as stated: for every key, the limiter passes at most maxAttempts
\* requests on in any interval of length windowMs, a .. a + windowMs, and a
\* request that arrives while maxAttempts passed requests are inside the
\* window is answered 429 and not recorded.
C29_AnyInterval ==
    /\ [](\A route \in LimitRoutes, key \in LimiterKeys, a \in 0 .. MaxClock :
             Cardinality(passedIn(route, key, a, a + limiters[route].windowMs))
                <= limiters[route].maxAttempts)
    /\ RefusedUnrecorded

\* C29, amended: for every key, the limiter passes at most maxAttempts
\* requests on in any windowMs consecutive milliseconds, a .. a + windowMs - 1,
\* and a request that arrives while maxAttempts passed requests are inside the
\* window is answered 429 and not recorded.
C29_RateLimit ==
    /\ [](\A route \in LimitRoutes, key \in LimiterKeys, a \in 0 .. MaxClock :
             Cardinality(passedIn(route, key, a, a + limiters[route].windowMs - 1))
                <= limiters[route].maxAttempts)
    /\ RefusedUnrecorded

\* a login was refused, and after the window had passed a login with the
\* same key went through
C29_Witness ==
    /\ resp.op = "login"
    /\ resp.code = "next"
    /\ \E i \in DOMAIN passed :
          /\ passed[i].route = "login"
          /\ passed[i].at + limiters["login"].windowMs <= now
          /\ Cardinality(passedIn("login", passed[i].key, passed[i].at, passed[i].at))
                = limiters["login"].maxAttempts
          /\ passed[Len(passed)] = [route |-> "login", key |-> passed[i].key, at |-> now]


\* C30: while an account is deactivated, a request with its token is answered
\* 401 by protect and handed to no handler, a login with its credentials is
\* refused, and only the status route, called by an admin, activates it again.
C30_DeactivatedLockedOut ==
    [][\A u \in Users :
          ~accounts[u].isActive
             => /\ \A req \in Requests :
                      Protect(u, req) => resp'.code = "401-deactivated" /\ pending' = pending
                /\ \A ip \in Ips, ok \in BOOLEAN :
                      Login(ip, u, ok) => resp'.code \in {"401-deactivated", "401-invalid", "429"}
                /\ accounts'[u].isActive
                      => \E r \in pending, ip \in Ips :
                            /\ r.route = "putUserStatus"
                            /\ r.role = "admin"
                            /\ r.target = u
                            /\ Handle(r, ip)]_vars

\* protect has refused a request of a deactivated account
C30_Witness ==
    /\ resp.op = "protect"
    /\ resp.code = "401-deactivated"
    /\ \E u \in Users : ~accounts[u].isActive

====
